---- MODULE Spec2Model ----
(***************************************************************************)
(* URL shortener microservice (express + mongoose).                        *)
(*                                                                         *)
(* The state is the MongoDB collection `urls`, the mongoose connection     *)
(* and, for each request being served, the position of its async handler   *)
(* together with the handler's local variables.  Node runs one callback at *)
(* a time, so one action is one turn of the event loop:                    *)
(*   - a request arrives: the middleware and the handler run up to the     *)
(*     first `await` of the handler, or to its response when it sends one  *)
(*     before any `await`;                                                 *)
(*   - the store call a handler awaits is executed or rejected, and the    *)
(*     handler runs on to its next `await` or to its response;             *)
(*   - mongoose.connect settles; a signal stops the process;               *)
(*   - one log request settles.                                            *)
(* The log calls are not awaited: a turn that makes them leaves their      *)
(* axios.post requests in flight, and each of them settles in a turn of    *)
(* its own, in which the logger writes its note.                           *)
(***************************************************************************)
EXTENDS Integers, Sequences, FiniteSets, TLC

\* ------------------------------------------------------------------ bounds
MaxRequests == 3      \* requests the server receives in one behaviour

maxAttempts == 10

\* The requests served at the same time.
Handlers == {"h1", "h2"}

\* ------------------------------------------------------------ input values
\* Strings the code inspects character by character are sequences of
\* characters; "U+2028" and "U+2029" stand for the characters LINE SEPARATOR
\* and PARAGRAPH SEPARATOR.
UrlA == <<"h","t","t","p",":","/","/","a">>
UrlB == <<"h","t","t","p","s",":","/","/","b">>
UrlFtp == <<"f","t","p",":","/","/","x">>
UrlNoHost == <<"h","t","t","p",":","/","/">>
UrlNotAnchored == <<"x","h","t","t","p",":","/","/","a">>
UrlNewline == <<"h","t","t","p",":","/","/","\n","a">>
UrlLineSeparator == <<"h","t","t","p",":","/","/","U+2028","a">>
UrlParagraphSeparator == <<"h","t","t","p","s",":","/","/","U+2029">>
Empty == <<>>

UrlInputs == {UrlA, UrlB, UrlFtp, UrlNoHost, UrlNotAnchored, UrlNewline,
              UrlLineSeparator, UrlParagraphSeparator, Empty}

\* The ids shortid.generate() may return, and the shortUrl values a client
\* may send ("" stands for a missing or empty field).
Codes == {"c1", "c2"}
CodeInputs == Codes \cup {""}

\* The page and limit values a client may send to /urls.
Pages == {1, 2}
Limits == {1, 2}

\* The characters `.` does not match in a JavaScript pattern without the s
\* flag.
LineTerminators == {"\n", "\r", "U+2028", "U+2029"}

\* Mutant: the pattern has lost its ^ anchor.
TestUrlNotAnchored(v) ==
  \E i \in 1..Len(v) :
    LET n == Len(v)
        IsAt(j, w) == j + Len(w) - 1 <= n /\ SubSeq(v, j, j + Len(w) - 1) = w
        Rest(k) == /\ IsAt(k, <<":","/","/">>)
                   /\ k + 3 <= n
                   /\ v[k + 3] \notin LineTerminators
    IN  /\ IsAt(i, <<"h","t","t","p">>)
        /\ \/ (IsAt(i + 4, <<"s">>) /\ Rest(i + 5))
           \/ Rest(i + 4)

\* /^https?:\/\/.+/.test(v)
TestUrl(v) ==
  LET n == Len(v)
      IsAt(i, w) == i + Len(w) - 1 <= n /\ SubSeq(v, i, i + Len(w) - 1) = w
      Rest(k) == /\ IsAt(k, <<":","/","/">>)
                 /\ k + 3 <= n
                 /\ v[k + 3] \notin LineTerminators
  IN  /\ IsAt(1, <<"h","t","t","p">>)
      /\ \/ (IsAt(5, <<"s">>) /\ Rest(6))
         \/ Rest(5)

\* ------------------------------------------------------------------- state
VARIABLES
  store,       \* the collection: documents in insertion order
  connection,  \* mongoose.connect: "connecting" until it settles, then
               \* "connected" or "disconnected"
  running,     \* the process runs (no signal has stopped it)
  now,         \* Date.now()
  served,      \* per short code, the 200 responses /redirect has sent
  requests,    \* the requests received so far
  pc,          \* per handler, the await whose operation is still to be
               \* executed ("idle": the handler serves no request)
  body,        \* per handler, req.body
  shortUrl,    \* per handler, the local `shortUrl` of /shorten
  attempts,    \* per handler, the local `attempts` of /shorten
  doc,         \* per handler, the mongoose document it holds in memory
  urls,        \* per handler, the local `urls` of /urls
  res,         \* the response sent by the last step, if it sent one
  posts,       \* the axios.post requests of the logger that have not settled
  console      \* the note the logger wrote in the last step, if it wrote one

vars == <<store, connection, running, now, served, requests, pc, body, shortUrl, attempts, doc, urls, res, posts, console>>

NoBody == [originalUrl |-> Empty, shortUrl |-> "", page |-> 0, limit |-> 0]
NoDoc == [id |-> 0, originalUrl |-> Empty, shortUrl |-> "", createdAt |-> 0,
          accessCount |-> 0]
NoRes == [to |-> "", route |-> "", status |-> 0, error |-> "",
          originalUrl |-> Empty, shortUrl |-> "", accessCount |-> 0,
          urls |-> <<>>, total |-> 0, database |-> ""]

\* ------------------------------------------------------------ the database
\* new Url({originalUrl, shortUrl}): createdAt and accessCount by default.
Url(originalUrl, code, t) ==
  [originalUrl |-> originalUrl, shortUrl |-> code, createdAt |-> t,
   accessCount |-> 0]

\* The collections the server may find when it starts: an empty one, or the
\* document an earlier run has left.
InitialStores == {<<>>, <<Url(UrlA, "c1", 0)>>}

Matching(s, field, v) == {i \in 1..Len(s) : s[i][field] = v}

Min(S) == CHOOSE x \in S : \A y \in S : x <= y

\* Mutant: without a match the last document comes back.
findOneOrLast(s, field, v) ==
  IF Matching(s, field, v) = {} THEN Len(s) ELSE Min(Matching(s, field, v))

\* Url.findOne(filter): the first matching document, 0 for null.
findOne(s, field, v) ==
  IF Matching(s, field, v) = {} THEN 0 ELSE Min(Matching(s, field, v))

\* Mutant: the filter names a field no document matches.
FindByOriginalUrlMiss(s, u) == 0

\* Url.findOne({ originalUrl })
FindByOriginalUrl(s, u) == findOne(s, "originalUrl", u)

\* Mutant: the filter is dropped and the first document of the collection
\* comes back.
FindByShortUrlFirst(s, c) == IF Len(s) = 0 THEN 0 ELSE 1

\* Url.findOne({ shortUrl })
FindByShortUrl(s, c) == findOne(s, "shortUrl", c)

\* Mutant: the schema declares no unique index.
UniqueShortUrlOff(s, code) == TRUE

\* The unique index on shortUrl: whether an insert of `code` is accepted.
UniqueShortUrl(s, code) == Matching(s, "shortUrl", code) = {}

\* Mutant: save() sets createdAt again, from the default of the schema.
SetAccessCountAndDate(s, id, n) ==
  [s EXCEPT ![id].accessCount = n, ![id].createdAt = now + 1]

\* save() of a found document whose accessCount was modified:
\* updateOne({_id}, {$set: {accessCount}}).
SetAccessCount(s, id, n) == [s EXCEPT ![id].accessCount = n]

\* ------------------------------------------------------------- the logger
\* logToExternalService up to its await, for the n log calls of a step:
\* their axios.post requests are in flight.  No caller awaits the promise
\* the function returns.
logToExternalService(n) ==
  /\ posts' = posts + n
  /\ console' = ""

\* loggingMiddleware: one call when a request comes in, one in res.end.
Incoming(p) == IF pc[p] = "idle" THEN 1 ELSE 0

\* The note logToExternalService writes after its await: "sent" when
\* axios.post is fulfilled (ok), "fallback", from its catch block, when it
\* rejects.
Note(ok) == IF ok THEN "sent" ELSE "fallback"

\* Mutant: logToExternalService has no catch block, and the rejection of
\* axios.post, which nothing handles, ends the process: the requests being
\* served get no answer.
LogSettlesUncaught(ok) ==
  /\ running
  /\ posts > 0
  /\ posts' = posts - 1
  /\ console' = IF ok THEN "sent" ELSE ""
  /\ res' = NoRes
  /\ running' = ok
  /\ pc' = IF ok THEN pc ELSE [p \in Handlers |-> "idle"]
  /\ body' = IF ok THEN body ELSE [p \in Handlers |-> NoBody]
  /\ shortUrl' = IF ok THEN shortUrl ELSE [p \in Handlers |-> ""]
  /\ attempts' = IF ok THEN attempts ELSE [p \in Handlers |-> 0]
  /\ doc' = IF ok THEN doc ELSE [p \in Handlers |-> NoDoc]
  /\ urls' = IF ok THEN urls ELSE [p \in Handlers |-> <<>>]
  /\ UNCHANGED <<store, connection, now, served, requests>>

\* logToExternalService from its await on: one axios.post settles and the
\* logger writes its note.  The promise of the function is fulfilled in
\* both cases.
LogSettles(ok) ==
  /\ running
  /\ posts > 0
  /\ posts' = posts - 1
  /\ console' = Note(ok)
  /\ res' = NoRes
  /\ UNCHANGED <<store, connection, running, now, served, requests, pc, body, shortUrl, attempts, doc, urls>>

\* A handler answers: its logMessage call, then res.status().json(), whose
\* res.end logs the response.
Send(p, r) ==
  /\ logToExternalService(Incoming(p) + 2)
  /\ res' = [r EXCEPT !.to = p]
  /\ pc' = [pc EXCEPT ![p] = "idle"]
  /\ body' = [body EXCEPT ![p] = NoBody]
  /\ shortUrl' = [shortUrl EXCEPT ![p] = ""]
  /\ attempts' = [attempts EXCEPT ![p] = 0]
  /\ doc' = [doc EXCEPT ![p] = NoDoc]
  /\ urls' = [urls EXCEPT ![p] = <<>>]

\* ------------------------------------------------------------ the process
\* The states in which the server takes its first request: app.listen has
\* called back and made its log call (line 286); mongoose.connect is
\* pending, or has settled and made its own (line 19 or 22).  None of these
\* log requests has settled.
Init ==
  /\ store \in InitialStores
  /\ connection \in {"connecting", "connected", "disconnected"}
  /\ running = TRUE
  /\ now = 0
  /\ served = [c \in Codes |-> 0]
  /\ requests = 0
  /\ pc = [p \in Handlers |-> "idle"]
  /\ body = [p \in Handlers |-> NoBody]
  /\ shortUrl = [p \in Handlers |-> ""]
  /\ attempts = [p \in Handlers |-> 0]
  /\ doc = [p \in Handlers |-> NoDoc]
  /\ urls = [p \in Handlers |-> <<>>]
  /\ res = NoRes
  /\ posts = IF connection = "connecting" THEN 1 ELSE 2
  /\ console = ""

\* Lines 17-23: mongoose.connect settles, fulfilled (ok) or rejected, and
\* its callback makes a log call.
Connect(ok) ==
  /\ running
  /\ connection = "connecting"
  /\ connection' = IF ok THEN "connected" ELSE "disconnected"
  /\ logToExternalService(1)
  /\ res' = NoRes
  /\ UNCHANGED <<store, running, now, served, requests, pc, body, shortUrl, attempts, doc, urls>>

\* Lines 290-298: SIGTERM or SIGINT; the handler makes a log call and calls
\* process.exit(0).  The requests being served are not answered and the
\* log requests in flight never settle in this process.
Signal ==
  /\ running
  /\ running' = FALSE
  /\ logToExternalService(1)
  /\ res' = NoRes
  /\ pc' = [p \in Handlers |-> "idle"]
  /\ body' = [p \in Handlers |-> NoBody]
  /\ shortUrl' = [p \in Handlers |-> ""]
  /\ attempts' = [p \in Handlers |-> 0]
  /\ doc' = [p \in Handlers |-> NoDoc]
  /\ urls' = [p \in Handlers |-> <<>>]
  /\ UNCHANGED <<store, connection, now, served, requests>>

\* A store call can be executed once the connection is open; until then
\* mongoose holds it back, and it rejects when the store cannot be reached.
Connected == connection = "connected"

Response(route, status, error) ==
  [NoRes EXCEPT !.route = route, !.status = status, !.error = error]

\* The handler stops at an await: the step sends nothing.
Suspend(p, at) ==
  /\ logToExternalService(Incoming(p))
  /\ pc' = [pc EXCEPT ![p] = at]
  /\ res' = NoRes

ExhaustionError == "Failed to generate unique short URL"

\* The answers of the catch blocks of the four routes.
InternalError == "Internal server error while shortening URL"
InfoError == "Internal server error while retrieving URL info"
RedirectError == "Internal server error while redirecting URL"
UrlsError == "Internal server error while retrieving URLs"

\* Mutant: the answer takes shortUrl from the handler's local variable,
\* which is not set yet.
AlreadyShortenedNoCode(d) ==
  [Response("shorten", 200, "") EXCEPT !.originalUrl = d.originalUrl]

\* Lines 100-105: the answer for a URL that has a document, d.
AlreadyShortened(d) ==
  [Response("shorten", 200, "") EXCEPT !.originalUrl = d.originalUrl,
                                       !.shortUrl = d.shortUrl]

\* Lines 136-142: the answer for a document just saved, d.
Created(d) ==
  [Response("shorten", 201, "") EXCEPT !.originalUrl = d.originalUrl,
                                       !.shortUrl = d.shortUrl]

\* Mutant: the loop does not count its passes.
CountAttemptNone(n) == n

\* attempts++
CountAttempt(n) == n + 1

\* Mutant: the loop condition is off by one.
LoopAgainOffByOne(isUnique, n) == ~isUnique /\ n <= maxAttempts

\* while (!isUnique && attempts < maxAttempts)
LoopAgain(isUnique, n) == ~isUnique /\ n < maxAttempts

\* Mutant: an access counts twice.
IncrementTwice(n) == n + 2

\* Mutant: the increment is lost.
IncrementNone(n) == n

\* url.accessCount += 1
Increment(n) == n + 1

\* shortid.generate()
Generate == Codes

\* Date.now() at the next call: the same millisecond or a later one.
Tick == {now, now + 1}

\* A request arrives and handler p, which serves no request, takes it.
Receive(p) ==
  /\ running
  /\ pc[p] = "idle"
  /\ requests < MaxRequests
  /\ requests' = requests + 1
  /\ UNCHANGED <<connection, running>>

\* The store call that handler p awaits at `at` settles and the handler
\* runs on.
Resume(p, at) ==
  /\ running
  /\ pc[p] = at
  /\ UNCHANGED <<requests, connection, running>>

\* ---------------------------------------------------------- POST /health
\* Lines 55-65: no store call; the answer reports the state of the
\* connection.
Health(p) ==
  /\ Receive(p)
  /\ Send(p, [Response("health", 200, "") EXCEPT
                !.database = IF Connected THEN "connected" ELSE "disconnected"])
  /\ UNCHANGED <<store, now, served>>

\* --------------------------------------------------------- POST /shorten
\* Lines 79-97: validation, answered at once; then the handler stops at
\* `await Url.findOne({ originalUrl })`.
Shorten(p, u) ==
  /\ Receive(p)
  /\ IF u = Empty
       THEN Send(p, Response("shorten", 400, "originalUrl is required in request body"))
       ELSE IF ~TestUrl(u)
       THEN Send(p, Response("shorten", 400, "Invalid URL format. Must be a valid HTTP or HTTPS URL"))
       ELSE /\ body' = [body EXCEPT ![p] = [NoBody EXCEPT !.originalUrl = u]]
            /\ Suspend(p, "shorten_findUrl")
            /\ UNCHANGED <<shortUrl, attempts, doc, urls>>
  /\ UNCHANGED <<store, now, served>>

\* Lines 97-116: the findOne by originalUrl rejects and the catch block
\* answers; or it resolves: an existing document is returned as it is,
\* otherwise the loop starts with a first candidate and
\* `await Url.findOne({ shortUrl })`.
ShortenFindUrl(p) ==
  /\ Resume(p, "shorten_findUrl")
  /\ \/ Send(p, Response("shorten", 500, InternalError))
     \/ /\ Connected
        /\ LET existingUrl == FindByOriginalUrl(store, body[p].originalUrl)
           IN IF existingUrl # 0
                THEN Send(p, AlreadyShortened(store[existingUrl]))
                ELSE /\ \E c \in Generate :
                          shortUrl' = [shortUrl EXCEPT ![p] = c]
                     /\ attempts' = [attempts EXCEPT ![p] = 0]
                     /\ Suspend(p, "shorten_findCode")
                     /\ UNCHANGED <<body, doc, urls>>
  /\ UNCHANGED <<store, now, served>>

\* Lines 116-132: the findOne by shortUrl rejects and the catch block
\* answers; or it resolves, and the loop goes on, gives up, or ends with a
\* free candidate, `new Url(...)` and `await newUrl.save()`.
ShortenFindCode(p) ==
  /\ Resume(p, "shorten_findCode")
  /\ \/ /\ Send(p, Response("shorten", 500, InternalError))
        /\ UNCHANGED now
     \/ /\ Connected
        /\ LET exists == FindByShortUrl(store, shortUrl[p])
               isUnique == exists = 0
               n == CountAttempt(attempts[p])
           IN IF LoopAgain(isUnique, n)
                THEN /\ \E c \in Generate : shortUrl' = [shortUrl EXCEPT ![p] = c]
                     /\ attempts' = [attempts EXCEPT ![p] = n]
                     /\ Suspend(p, "shorten_findCode")
                     /\ UNCHANGED <<body, doc, urls, now>>
                ELSE IF ~isUnique
                THEN /\ Send(p, Response("shorten", 500, ExhaustionError))
                     /\ UNCHANGED now
                ELSE /\ now' \in Tick
                     /\ doc' = [doc EXCEPT ![p] =
                          [NoDoc EXCEPT !.originalUrl = body[p].originalUrl,
                                        !.shortUrl = shortUrl[p],
                                        !.createdAt = now']]
                     /\ attempts' = [attempts EXCEPT ![p] = n]
                     /\ Suspend(p, "shorten_save")
                     /\ UNCHANGED <<body, shortUrl, urls>>
  /\ UNCHANGED <<store, served>>

\* Lines 132-149: the insert resolves; or it rejects, because the unique
\* index refuses the code or because the store cannot be reached, and the
\* catch block answers.
ShortenSave(p) ==
  /\ Resume(p, "shorten_save")
  /\ \/ /\ Connected
        /\ UniqueShortUrl(store, doc[p].shortUrl)
        /\ store' = Append(store, Url(doc[p].originalUrl, doc[p].shortUrl,
                                      doc[p].createdAt))
        /\ Send(p, Created(doc[p]))
     \/ /\ Send(p, Response("shorten", 500, InternalError))
        /\ UNCHANGED store
  /\ UNCHANGED <<now, served>>

\* -------------------------------------------------------- POST /redirect
\* Lines 193-202: the shortUrl check, answered at once; then the handler
\* stops at `await Url.findOne({ shortUrl })`.
Redirect(p, c) ==
  /\ Receive(p)
  /\ IF c = ""
       THEN Send(p, Response("redirect", 400, "shortUrl is required in request body"))
       ELSE /\ body' = [body EXCEPT ![p] = [NoBody EXCEPT !.shortUrl = c]]
            /\ Suspend(p, "redirect_find")
            /\ UNCHANGED <<shortUrl, attempts, doc, urls>>
  /\ UNCHANGED <<store, now, served>>

\* Lines 202-212: the findOne rejects and the catch block answers; or it
\* resolves: 404 without a document, otherwise `url.accessCount += 1` on
\* the document in memory and `await url.save()`.
RedirectFind(p) ==
  /\ Resume(p, "redirect_find")
  /\ \/ Send(p, Response("redirect", 500, RedirectError))
     \/ /\ Connected
        /\ LET url == FindByShortUrl(store, body[p].shortUrl)
           IN IF url = 0
                THEN Send(p, Response("redirect", 404, "Short URL not found"))
                ELSE /\ doc' = [doc EXCEPT ![p] =
                          [id |-> url,
                           originalUrl |-> store[url].originalUrl,
                           shortUrl |-> store[url].shortUrl,
                           createdAt |-> store[url].createdAt,
                           accessCount |-> Increment(store[url].accessCount)]]
                     /\ Suspend(p, "redirect_save")
                     /\ UNCHANGED <<body, shortUrl, attempts, urls>>
  /\ UNCHANGED <<store, now, served>>

\* Mutant: the answer reports the count as it was read, before the
\* increment.
RedirectSaveStale(p) ==
  /\ Resume(p, "redirect_save")
  /\ \/ /\ Connected
        /\ store' = SetAccessCount(store, doc[p].id, doc[p].accessCount)
        /\ served' = [served EXCEPT ![doc[p].shortUrl] = @ + 1]
        /\ Send(p, [Response("redirect", 200, "") EXCEPT
                      !.originalUrl = doc[p].originalUrl,
                      !.accessCount = doc[p].accessCount - 1])
     \/ /\ Send(p, Response("redirect", 500, RedirectError))
        /\ UNCHANGED <<store, served>>
  /\ UNCHANGED now

\* Lines 212-226: the save resolves and the handler answers from the
\* document in memory, with redirectUrl and accessCount; or the save
\* rejects, nothing is written and the catch block answers.
RedirectSave(p) ==
  /\ Resume(p, "redirect_save")
  /\ \/ /\ Connected
        /\ store' = SetAccessCount(store, doc[p].id, doc[p].accessCount)
        /\ served' = [served EXCEPT ![doc[p].shortUrl] = @ + 1]
        /\ Send(p, [Response("redirect", 200, "") EXCEPT
                      !.originalUrl = doc[p].originalUrl,
                      !.accessCount = doc[p].accessCount])
     \/ /\ Send(p, Response("redirect", 500, RedirectError))
        /\ UNCHANGED <<store, served>>
  /\ UNCHANGED now

\* -------------------------------------------------------- POST /url-info
\* Lines 155-164: the shortUrl check, answered at once; then the handler
\* stops at `await Url.findOne({ shortUrl })`.
Info(p, c) ==
  /\ Receive(p)
  /\ IF c = ""
       THEN Send(p, Response("url-info", 400, "shortUrl is required in request body"))
       ELSE /\ body' = [body EXCEPT ![p] = [NoBody EXCEPT !.shortUrl = c]]
            /\ Suspend(p, "info_find")
            /\ UNCHANGED <<shortUrl, attempts, doc, urls>>
  /\ UNCHANGED <<store, now, served>>

\* Mutant: /url-info counts an access as /redirect does.
InfoFindCounting(p) ==
  /\ Resume(p, "info_find")
  /\ \/ /\ Send(p, Response("url-info", 500, InfoError))
        /\ UNCHANGED store
     \/ /\ Connected
        /\ LET url == FindByShortUrl(store, body[p].shortUrl)
           IN IF url = 0
                THEN /\ Send(p, Response("url-info", 404, "Short URL not found"))
                     /\ UNCHANGED store
                ELSE /\ store' = SetAccessCount(store, url,
                                    Increment(store[url].accessCount))
                     /\ Send(p, [Response("url-info", 200, "") EXCEPT
                                   !.originalUrl = store[url].originalUrl,
                                   !.shortUrl = store[url].shortUrl,
                                   !.accessCount = store[url].accessCount])
  /\ UNCHANGED <<now, served>>

\* Lines 164-187: the findOne rejects and the catch block answers; or it
\* resolves and the handler answers, 404 without a document.
InfoFind(p) ==
  /\ Resume(p, "info_find")
  /\ \/ Send(p, Response("url-info", 500, InfoError))
     \/ /\ Connected
        /\ LET url == FindByShortUrl(store, body[p].shortUrl)
           IN IF url = 0
                THEN Send(p, Response("url-info", 404, "Short URL not found"))
                ELSE Send(p, [Response("url-info", 200, "") EXCEPT
                                !.originalUrl = store[url].originalUrl,
                                !.shortUrl = store[url].shortUrl,
                                !.accessCount = store[url].accessCount])
  /\ UNCHANGED <<store, now, served>>

\* ------------------------------------------------------------ POST /urls
\* The orders `.sort({ createdAt: -1 })` may return: documents with equal
\* createdAt come in any order.
SortedByCreatedAtDesc(s) ==
  {f \in [1..Len(s) -> 1..Len(s)] :
     /\ \A i, j \in 1..Len(s) : i # j => f[i] # f[j]
     /\ \A i, j \in 1..Len(s) :
          i < j => s[f[i]].createdAt >= s[f[j]].createdAt}

\* Mutant: .skip(skip) is left out of the query.
WindowNoSkip(s, f, skip, limit) ==
  [k \in 1..(IF Len(s) < limit THEN Len(s) ELSE limit) |-> s[f[k]]]

\* .skip(skip).limit(limit) of the documents in order f.
Window(s, f, skip, limit) ==
  [k \in 1..(IF Len(s) - skip < 0 THEN 0
              ELSE IF Len(s) - skip < limit THEN Len(s) - skip ELSE limit)
     |-> s[f[skip + k]]]

\* Lines 232-239: page and limit are read and the handler stops at the
\* `await` of the page query.
Urls(p, page, limit) ==
  /\ Receive(p)
  /\ body' = [body EXCEPT ![p] = [NoBody EXCEPT !.page = page, !.limit = limit]]
  /\ Suspend(p, "urls_find")
  /\ UNCHANGED <<shortUrl, attempts, doc, urls>>
  /\ UNCHANGED <<store, now, served>>

\* Lines 235-241: the page query rejects and the catch block answers; or
\* it resolves, then `await Url.countDocuments()`.
UrlsFind(p) ==
  /\ Resume(p, "urls_find")
  /\ \/ Send(p, Response("urls", 500, UrlsError))
     \/ /\ Connected
        /\ LET skip == (body[p].page - 1) * body[p].limit
           IN \E f \in SortedByCreatedAtDesc(store) :
                urls' = [urls EXCEPT ![p] =
                           Window(store, f, skip, body[p].limit)]
        /\ Suspend(p, "urls_count")
        /\ UNCHANGED <<body, shortUrl, attempts, doc>>
  /\ UNCHANGED <<store, now, served>>

\* Lines 241-263: the count resolves and the handler answers; or it
\* rejects and the catch block answers.
UrlsCount(p) ==
  /\ Resume(p, "urls_count")
  /\ \/ /\ Connected
        /\ Send(p, [Response("urls", 200, "") EXCEPT
                      !.urls = urls[p], !.total = Len(store)])
     \/ Send(p, Response("urls", 500, UrlsError))
  /\ UNCHANGED <<store, now, served>>

\* ------------------------------------------------- the other middleware
\* Lines 267-272: express.json() cannot parse the body of a request and
\* hands the error to the error middleware.  The request has not reached
\* loggingMiddleware: the only log call is the one of this handler.
ErrorMiddleware(p) ==
  /\ Receive(p)
  /\ logToExternalService(1)
  /\ res' = [Response("error", 500, "Internal server error") EXCEPT !.to = p]
  /\ UNCHANGED <<store, now, served, pc, body, shortUrl, attempts, doc, urls>>

\* Lines 275-280: a request for any other path or method.
RouteNotFound(p) ==
  /\ Receive(p)
  /\ Send(p, Response("*", 404, "Route not found. This service only supports POST methods."))
  /\ UNCHANGED <<store, now, served>>

\* ---------------------------------------------------------------- steps
Next ==
  \/ \E p \in Handlers : Health(p)
  \/ \E p \in Handlers, u \in UrlInputs : Shorten(p, u)
  \/ \E p \in Handlers : ShortenFindUrl(p)
  \/ \E p \in Handlers : ShortenFindCode(p)
  \/ \E p \in Handlers : ShortenSave(p)
  \/ \E p \in Handlers, c \in CodeInputs : Redirect(p, c)
  \/ \E p \in Handlers : RedirectFind(p)
  \/ \E p \in Handlers : RedirectSave(p)
  \/ \E p \in Handlers, c \in CodeInputs : Info(p, c)
  \/ \E p \in Handlers : InfoFind(p)
  \/ \E p \in Handlers, page \in Pages, limit \in Limits : Urls(p, page, limit)
  \/ \E p \in Handlers : UrlsFind(p)
  \/ \E p \in Handlers : UrlsCount(p)
  \/ \E p \in Handlers : ErrorMiddleware(p)
  \/ \E p \in Handlers : RouteNotFound(p)
  \/ \E ok \in BOOLEAN : Connect(ok)
  \/ Signal
  \/ \E ok \in BOOLEAN : LogSettles(ok)

Spec == Init /\ [][Next]_vars

\* The log service does not answer: the log requests stay in flight, and
\* no handler waits for them.
NextSilent ==
  \/ \E p \in Handlers : Health(p)
  \/ \E p \in Handlers, u \in UrlInputs : Shorten(p, u)
  \/ \E p \in Handlers : ShortenFindUrl(p)
  \/ \E p \in Handlers : ShortenFindCode(p)
  \/ \E p \in Handlers : ShortenSave(p)
  \/ \E p \in Handlers, c \in CodeInputs : Redirect(p, c)
  \/ \E p \in Handlers : RedirectFind(p)
  \/ \E p \in Handlers : RedirectSave(p)
  \/ \E p \in Handlers, c \in CodeInputs : Info(p, c)
  \/ \E p \in Handlers : InfoFind(p)
  \/ \E p \in Handlers, page \in Pages, limit \in Limits : Urls(p, page, limit)
  \/ \E p \in Handlers : UrlsFind(p)
  \/ \E p \in Handlers : UrlsCount(p)
  \/ \E p \in Handlers : ErrorMiddleware(p)
  \/ \E p \in Handlers : RouteNotFound(p)
  \/ \E ok \in BOOLEAN : Connect(ok)
  \/ Signal

SpecSilent == Init /\ [][NextSilent]_vars

\* Every store call a handler awaits returns or rejects: the step that
\* follows an await is taken at some time.
Returns ==
  \A p \in Handlers :
    /\ WF_vars(ShortenFindUrl(p))
    /\ WF_vars(ShortenFindCode(p))
    /\ WF_vars(ShortenSave(p))
    /\ WF_vars(RedirectFind(p))
    /\ WF_vars(RedirectSave(p))
    /\ WF_vars(InfoFind(p))
    /\ WF_vars(UrlsFind(p))
    /\ WF_vars(UrlsCount(p))

\* The process is not stopped, and the log service does not answer.
NextReturns ==
  \/ \E p \in Handlers : Health(p)
  \/ \E p \in Handlers, u \in UrlInputs : Shorten(p, u)
  \/ \E p \in Handlers : ShortenFindUrl(p)
  \/ \E p \in Handlers : ShortenFindCode(p)
  \/ \E p \in Handlers : ShortenSave(p)
  \/ \E p \in Handlers, c \in CodeInputs : Redirect(p, c)
  \/ \E p \in Handlers : RedirectFind(p)
  \/ \E p \in Handlers : RedirectSave(p)
  \/ \E p \in Handlers, c \in CodeInputs : Info(p, c)
  \/ \E p \in Handlers : InfoFind(p)
  \/ \E p \in Handlers, page \in Pages, limit \in Limits : Urls(p, page, limit)
  \/ \E p \in Handlers : UrlsFind(p)
  \/ \E p \in Handlers : UrlsCount(p)
  \/ \E p \in Handlers : ErrorMiddleware(p)
  \/ \E p \in Handlers : RouteNotFound(p)
  \/ \E ok \in BOOLEAN : Connect(ok)

SpecReturns == Init /\ [][NextReturns]_vars /\ Returns

\* /redirect requests for one short code served one after another: a request
\* for a code comes in when no other request for it is under way.
RedirectInTurn(p, c) ==
  /\ \A q \in Handlers :
       pc[q] \in {"redirect_find", "redirect_save"} => body[q].shortUrl # c
  /\ Redirect(p, c)

NextInTurn ==
  \/ \E p \in Handlers : Health(p)
  \/ \E p \in Handlers, u \in UrlInputs : Shorten(p, u)
  \/ \E p \in Handlers : ShortenFindUrl(p)
  \/ \E p \in Handlers : ShortenFindCode(p)
  \/ \E p \in Handlers : ShortenSave(p)
  \/ \E p \in Handlers, c \in CodeInputs : RedirectInTurn(p, c)
  \/ \E p \in Handlers : RedirectFind(p)
  \/ \E p \in Handlers : RedirectSave(p)
  \/ \E p \in Handlers, c \in CodeInputs : Info(p, c)
  \/ \E p \in Handlers : InfoFind(p)
  \/ \E p \in Handlers, page \in Pages, limit \in Limits : Urls(p, page, limit)
  \/ \E p \in Handlers : UrlsFind(p)
  \/ \E p \in Handlers : UrlsCount(p)
  \/ \E p \in Handlers : ErrorMiddleware(p)
  \/ \E p \in Handlers : RouteNotFound(p)
  \/ \E ok \in BOOLEAN : Connect(ok)
  \/ Signal

SpecInTurn == Init /\ [][NextInTurn]_vars

\* The collection at rest while a /urls request is served: no write is
\* executed between the page query of a request and its count.
Quiescent == \A q \in Handlers : pc[q] # "urls_count"

ShortenSaveQuiescent(p) == Quiescent /\ ShortenSave(p)

RedirectSaveQuiescent(p) == Quiescent /\ RedirectSave(p)

NextQuiescent ==
  \/ \E p \in Handlers : Health(p)
  \/ \E p \in Handlers, u \in UrlInputs : Shorten(p, u)
  \/ \E p \in Handlers : ShortenFindUrl(p)
  \/ \E p \in Handlers : ShortenFindCode(p)
  \/ \E p \in Handlers : ShortenSaveQuiescent(p)
  \/ \E p \in Handlers, c \in CodeInputs : Redirect(p, c)
  \/ \E p \in Handlers : RedirectFind(p)
  \/ \E p \in Handlers : RedirectSaveQuiescent(p)
  \/ \E p \in Handlers, c \in CodeInputs : Info(p, c)
  \/ \E p \in Handlers : InfoFind(p)
  \/ \E p \in Handlers, page \in Pages, limit \in Limits : Urls(p, page, limit)
  \/ \E p \in Handlers : UrlsFind(p)
  \/ \E p \in Handlers : UrlsCount(p)
  \/ \E p \in Handlers : ErrorMiddleware(p)
  \/ \E p \in Handlers : RouteNotFound(p)
  \/ \E ok \in BOOLEAN : Connect(ok)
  \/ Signal

SpecQuiescent == Init /\ [][NextQuiescent]_vars

\* ================================================================ claims
Records == 1..Len(store)

\* The documents of the collection with originalUrl u.
RecordsFor(u) == {i \in Records : store[i].originalUrl = u}

\* The /shorten calls for u whose lookup found no document for it and that
\* have not answered yet.
Minting(u) ==
  {p \in Handlers : /\ pc[p] \in {"shorten_findCode", "shorten_save"}
                    /\ body[p].originalUrl = u}

\* The step is the answer of a catch block to handler p, whose store call
\* has rejected: status 500 with the error of its route, and nothing
\* written.
Unavailable(p) ==
  /\ res'.to = p
  /\ res'.status = 500
  /\ res'.error = CASE res'.route = "shorten" -> InternalError
                    [] res'.route = "url-info" -> InfoError
                    [] res'.route = "redirect" -> RedirectError
                    [] res'.route = "urls" -> UrlsError
                    [] OTHER -> "none"
  /\ pc'[p] = "idle"
  /\ store' = store
  /\ served' = served

\* C1: no two documents of the collection share a short code, in any state
\* any interleaving of /shorten requests reaches.
C1_ShortCodesUnique ==
  \A i, j \in Records : i # j => store[i].shortUrl # store[j].shortUrl

\* Two calls found the same candidate free; the insert of one has been
\* executed, the insert of the other, of the same code for another URL, is
\* the next operation of its handler.
C1_Witness ==
  \E p \in Handlers, i \in Records :
    /\ pc[p] = "shorten_save"
    /\ doc[p].shortUrl = store[i].shortUrl
    /\ doc[p].originalUrl # store[i].originalUrl
    /\ ~UniqueShortUrl(store, doc[p].shortUrl)

\* C2: a duplicate-code rejection of the insert never reaches the caller of
\* /shorten: the call whose insert is of a code another call has inserted
\* since its lookup goes back to the generation of a code (unless a signal
\* stops the process).
C2_DuplicateNeverSurfaces ==
  [][\A p \in Handlers :
       (/\ pc[p] = "shorten_save"
        /\ ~UniqueShortUrl(store, doc[p].shortUrl)
        /\ running'
        /\ pc'[p] # "shorten_save") =>
           /\ pc'[p] = "shorten_findCode"
           /\ res'.to # p]_vars

\* C3: when no /redirect for a code is under way, its document's accessCount
\* is the number of /redirect requests for it that succeeded: concurrent
\* requests lose no update.
C3_NoLostUpdate ==
  \A i \in Records :
    (\A p \in Handlers :
        /\ pc[p] = "redirect_save" => doc[p].id # i
        /\ pc[p] = "redirect_find" => body[p].shortUrl # store[i].shortUrl)
      => store[i].accessCount = served[store[i].shortUrl]

\* C4: no step lowers the accessCount of a document.
C4_AccessCountNeverDecreases ==
  [][\A i \in Records : store'[i].accessCount >= store[i].accessCount]_vars

\* C5 as stated: at most one document for each originalUrl, in every state.
C5_OneRecordPerUrl ==
  \A i, j \in Records : i # j => store[i].originalUrl # store[j].originalUrl

\* C5 as amended: documents of a URL and /shorten calls about to insert one
\* number at most one together, until a second call looks the URL up while a
\* first one has looked it up and not inserted yet; no other step takes the
\* number above one.  So calls for one URL that do not overlap leave at most
\* one document for it.
C5_OneRecordPerUrlUnlessOverlap ==
  [][\A u \in UrlInputs :
       (/\ Cardinality(RecordsFor(u)) + Cardinality(Minting(u)) <= 1
        /\ Cardinality(RecordsFor(u)') + Cardinality(Minting(u)') > 1) =>
            /\ RecordsFor(u) = {}
            /\ Cardinality(Minting(u)) = 1
            /\ Cardinality(Minting(u)') = 2
            /\ store' = store]_vars

\* A call has created the only document of its URL and no other call is
\* about to insert one.
C5_Witness ==
  /\ res.route = "shorten"
  /\ res.status = 201
  /\ Cardinality(RecordsFor(res.originalUrl)) = 1
  /\ Minting(res.originalUrl) = {}

\* C6: the lookup of a /shorten call for a URL that has a document ends the
\* call with 200 and that document's short code (500, from the catch block,
\* when the lookup rejects) and changes nothing in the collection; a 201
\* answer names a document just inserted with accessCount 0.  So a second
\* call after a first returns the first one's code.
C6_IdempotentCreate ==
  [][/\ \A p \in Handlers, i \in Records :
          (/\ pc[p] = "shorten_findUrl"
           /\ body[p].originalUrl = store[i].originalUrl
           /\ ShortenFindUrl(p)) =>
             /\ store' = store
             /\ now' = now
             /\ pc'[p] = "idle"
             /\ res'.to = p
             /\ \/ Unavailable(p)
                \/ /\ res'.status = 200
                   /\ res'.originalUrl = store[i].originalUrl
                   /\ res'.shortUrl =
                        store[Min(RecordsFor(store[i].originalUrl))].shortUrl
     /\ (res'.route = "shorten" /\ res'.status = 201) =>
          /\ Len(store') = Len(store) + 1
          /\ store'[Len(store')].originalUrl = res'.originalUrl
          /\ store'[Len(store')].shortUrl = res'.shortUrl
          /\ store'[Len(store')].accessCount = 0]_vars

\* A resubmitted URL was answered from its only document, which has been
\* accessed since.
C6_Witness ==
  /\ res.route = "shorten"
  /\ res.status = 200
  /\ \E i \in Records : /\ RecordsFor(res.originalUrl) = {i}
                         /\ store[i].shortUrl = res.shortUrl
                         /\ store[i].accessCount > 0

\* C7: with the /redirect requests for a code served one after another,
\* /url-info reports as accessCount the number of them that succeeded.
C7_InfoReportsResolves ==
  (res.route = "url-info" /\ res.status = 200) =>
     res.accessCount = served[res.shortUrl]

\* /url-info reports two accesses after two /redirect requests.
C7_Witness ==
  /\ res.route = "url-info"
  /\ res.status = 200
  /\ res.accessCount = 2
  /\ served[res.shortUrl] = 2

\* C8: a step that answers a /url-info request, with 200, 404 or 400,
\* leaves the collection as it was.
C8_InfoReadOnly ==
  [][res'.route = "url-info" => store' = store]_vars

\* /url-info has answered for a document that has been accessed.
C8_Witness ==
  /\ res.route = "url-info"
  /\ res.status = 200
  /\ res.accessCount >= 1
  /\ \E i \in Records : /\ store[i].shortUrl = res.shortUrl
                         /\ store[i].accessCount = res.accessCount

\* C9: a successful /shorten answer names a document of the collection;
\* documents stay, with their originalUrl and shortUrl; and a /url-info or
\* /redirect request whose lookup is executed while a document has its
\* short code succeeds with that document's originalUrl, unless a store
\* call of it rejects and its catch block answers.
C9_RoundTrip ==
  [][/\ (res'.route = "shorten" /\ res'.status \in {200, 201}) =>
          \E i \in 1..Len(store') :
             /\ store'[i].originalUrl = res'.originalUrl
             /\ store'[i].shortUrl = res'.shortUrl
     /\ Len(store') >= Len(store)
     /\ \A i \in Records :
          /\ store'[i].originalUrl = store[i].originalUrl
          /\ store'[i].shortUrl = store[i].shortUrl
     /\ \A p \in Handlers, i \in Records :
          /\ (pc[p] = "info_find" /\ body[p].shortUrl = store[i].shortUrl
                /\ InfoFind(p)) =>
               \/ Unavailable(p)
               \/ /\ res'.to = p
                  /\ res'.status = 200
                  /\ res'.originalUrl = store[i].originalUrl
          /\ (pc[p] = "redirect_find" /\ body[p].shortUrl = store[i].shortUrl
                /\ RedirectFind(p)) =>
               \/ Unavailable(p)
               \/ /\ pc'[p] = "redirect_save"
                  /\ doc'[p].originalUrl = store[i].originalUrl
          /\ (pc[p] = "redirect_save" /\ doc[p].shortUrl = store[i].shortUrl
                /\ RedirectSave(p)) =>
               \/ Unavailable(p)
               \/ /\ res'.to = p
                  /\ res'.status = 200
                  /\ res'.originalUrl = store[i].originalUrl]_vars

\* Both URLs are shortened and a /redirect has answered with the URL of
\* the second document.
C9_Witness ==
  /\ Len(store) = 2
  /\ res.route = "redirect"
  /\ res.status = 200
  /\ res.originalUrl = store[2].originalUrl
  /\ res.accessCount = store[2].accessCount
  /\ store[1].originalUrl # store[2].originalUrl

\* C10: a /shorten call whose candidates are all in use fails with the
\* exhaustion error, status 500, when its 10th candidate is found in use,
\* not before and not later, and inserts nothing; a lookup that rejects
\* ends the call with the answer of the catch block.
C10_Exhaustion ==
  [][\A p \in Handlers :
       (/\ pc[p] = "shorten_findCode"
        /\ running'
        /\ <<pc[p], attempts[p]>>' # <<pc[p], attempts[p]>>) =>
          LET inUse == \E i \in Records : store[i].shortUrl = shortUrl[p]
              failed == /\ res'.to = p
                        /\ res'.route = "shorten"
                        /\ res'.status = 500
                        /\ res'.error = ExhaustionError
          IN /\ store' = store
             /\ failed => (inUse /\ attempts[p] + 1 = 10)
             /\ (inUse /\ attempts[p] + 1 = 10) => (failed \/ Unavailable(p))
             /\ (inUse /\ attempts[p] + 1 < 10) =>
                  \/ Unavailable(p)
                  \/ /\ pc'[p] = "shorten_findCode"
                     /\ attempts'[p] = attempts[p] + 1]_vars

\* A call has failed with the exhaustion error.
C10_Witness ==
  /\ res.route = "shorten"
  /\ res.status = 500
  /\ res.error = ExhaustionError
\* The pattern ^https?://.+ of the contract: a scheme, and one character
\* that is not a line terminator (line feed, carriage return, line
\* separator, paragraph separator) after it.
HasHttpScheme(u) ==
  \E scheme \in {<<"h","t","t","p",":","/","/">>,
                 <<"h","t","t","p","s",":","/","/">>} :
    /\ Len(u) > Len(scheme)
    /\ SubSeq(u, 1, Len(scheme)) = scheme
    /\ u[Len(scheme) + 1] \notin {"\n", "\r", "U+2028", "U+2029"}

\* The inputs that do not match it, the empty one among them.
NotHttp == {u \in UrlInputs : ~HasHttpScheme(u)}

\* C11: /shorten with an originalUrl that is empty or does not match
\* ^https?://.+ answers 400 in the step that receives it, without awaiting
\* any database operation, and leaves the collection unchanged; every
\* document has an originalUrl that matches.
C11_Validation ==
  [][/\ \A p \in Handlers, u \in NotHttp :
          (pc[p] = "idle" /\ Shorten(p, u)) =>
             /\ res'.to = p
             /\ res'.route = "shorten"
             /\ res'.status = 400
             /\ pc'[p] = "idle"
             /\ store' = store
     /\ \A i \in 1..Len(store') : HasHttpScheme(store'[i].originalUrl)]_vars

\* An invalid /shorten request was refused while the collection holds a
\* document.
C11_Witness ==
  /\ res.route = "shorten"
  /\ res.status = 400
  /\ res.error = "Invalid URL format. Must be a valid HTTP or HTTPS URL"
  /\ Len(store) >= 1
\* No document has short code c.
Unknown(c) == \A i \in Records : store[i].shortUrl # c

\* The step is the lookup of a /redirect or /url-info call of handler p.
Lookup(p) ==
  \/ pc[p] = "redirect_find" /\ RedirectFind(p)
  \/ pc[p] = "info_find" /\ InfoFind(p)

\* C12 as stated: /redirect and /url-info for any short code that no
\* document has, the empty one included, answer 404 (from the catch block
\* when the lookup rejects) and change nothing in the collection.
C12_NotFound ==
  [][\A p \in Handlers :
       /\ (pc[p] = "idle" /\ (Redirect(p, "") \/ Info(p, ""))) =>
             /\ res'.to = p
             /\ res'.status = 404
             /\ store' = store
       /\ (Unknown(body[p].shortUrl) /\ Lookup(p)) =>
             /\ res'.to = p
             /\ res'.status = 404 \/ Unavailable(p)
             /\ store' = store]_vars

\* C12 as amended: /redirect and /url-info for a non-empty short code that
\* no document has when the lookup is executed answer 404 "Short URL not
\* found" in the step of the lookup, with no write pending, or 500 from the
\* catch block when the lookup rejects; for an empty or missing short code
\* they answer 400 in the step in which the request arrives; in all cases
\* the collection and the access counts stay as they were.
C12_NotFoundNonEmpty ==
  [][\A p \in Handlers :
       /\ (pc[p] = "idle" /\ (Redirect(p, "") \/ Info(p, ""))) =>
             /\ res'.to = p
             /\ res'.route \in {"redirect", "url-info"}
             /\ res'.status = 400
             /\ res'.error = "shortUrl is required in request body"
             /\ pc'[p] = "idle"
             /\ store' = store
             /\ served' = served
       /\ (Unknown(body[p].shortUrl) /\ Lookup(p)) =>
             /\ res'.to = p
             /\ res'.route \in {"redirect", "url-info"}
             /\ \/ /\ res'.status = 404
                   /\ res'.error = "Short URL not found"
                \/ Unavailable(p)
             /\ pc'[p] = "idle"
             /\ store' = store
             /\ served' = served]_vars

\* /redirect has answered 404 for a code no document has, while the
\* collection holds a document that has been accessed.
C12_Witness ==
  /\ res.route = "redirect"
  /\ res.status = 404
  /\ Len(store) = 1
  /\ store[1].accessCount >= 1
\* C13: the accessCount a successful /redirect returns is the accessCount
\* its document (the one with the short code of the request) has in the
\* collection right after the write of that call, whatever other /redirect
\* calls for the same code are under way; a call whose write rejects
\* answers 500 and writes nothing.
C13_ReturnsStoredCount ==
  [][\A p \in Handlers :
       (pc[p] = "redirect_save" /\ pc'[p] = "idle" /\ running') =>
          /\ res'.to = p
          /\ res'.route = "redirect"
          /\ \/ Unavailable(p)
             \/ /\ res'.status = 200
                /\ store[doc[p].id].shortUrl = body[p].shortUrl
                /\ res'.originalUrl = store'[doc[p].id].originalUrl
                /\ res'.accessCount = store'[doc[p].id].accessCount]_vars

\* A /redirect has answered while another /redirect for the same code,
\* which read the document before that write, is still to write.
C13_Witness ==
  /\ res.route = "redirect"
  /\ res.status = 200
  /\ \E i \in Records, q \in Handlers :
        /\ store[i].originalUrl = res.originalUrl
        /\ store[i].accessCount = res.accessCount
        /\ res.accessCount >= 1
        /\ pc[q] = "redirect_save"
        /\ doc[q].id = i
        /\ doc[q].accessCount = res.accessCount
\* C14: with no write between the page query and the count, the answer of
\* /urls for page and limit holds the documents at positions skip+1 ..
\* skip+limit, skip = (page-1)*limit, of the collection in descending order
\* of createdAt, as many of them as exist (none, and status 200, when skip
\* is at least the number of documents), and the number of all documents
\* as total; when the count rejects, the catch block answers 500.
C14_Pagination ==
  [][\A p \in Handlers :
       (pc[p] = "urls_count" /\ pc'[p] = "idle" /\ running') =>
          LET page == body[p].page
              limit == body[p].limit
              skip == (page - 1) * limit
              n == Len(store)
          IN /\ res'.to = p
             /\ res'.route = "urls"
             /\ \/ Unavailable(p)
                \/ /\ res'.status = 200
                   /\ res'.total = n
                   /\ skip >= n => res'.urls = <<>>
                   /\ Len(res'.urls) =
                        Cardinality({k \in (skip + 1)..(skip + limit) : k <= n})
                   /\ \E f \in [1..n -> 1..n] :
                        /\ \A i, j \in 1..n : i # j => f[i] # f[j]
                        /\ \A i, j \in 1..n :
                             i < j => store[f[i]].createdAt >= store[f[j]].createdAt
                        /\ \A k \in 1..Len(res'.urls) :
                             res'.urls[k] = store[f[skip + k]]]_vars

\* The second page of one document each holds the older of two documents.
C14_Witness ==
  /\ res.route = "urls"
  /\ res.status = 200
  /\ res.total = 2
  /\ Len(store) = 2
  /\ store[1].createdAt < store[2].createdAt
  /\ res.urls = <<store[1]>>
\* C20: every 200 answer of /urls has as many documents as the window holds
\* of the total it reports, min(limit, max(0, total - (page-1)*limit)),
\* also when /shorten calls insert between the page query and the count.
C20_ListSnapshot ==
  [][\A p \in Handlers :
       (/\ pc[p] = "urls_count"
        /\ pc'[p] = "idle"
        /\ running'
        /\ res'.status = 200) =>
          LET skip == (body[p].page - 1) * body[p].limit
              left == IF res'.total - skip < 0 THEN 0 ELSE res'.total - skip
          IN Len(res'.urls) =
               IF body[p].limit < left THEN body[p].limit ELSE left]_vars
\* The collection, the process and the handlers: everything of a state but
\* the logger and the response of the last step.
core == <<store, connection, running, now, served, requests, pc, body, shortUrl, attempts, doc, urls>>

\* The step of handler p that follows its await.
Continue(p) ==
  \/ ShortenFindUrl(p) \/ ShortenFindCode(p) \/ ShortenSave(p)
  \/ RedirectFind(p) \/ RedirectSave(p)
  \/ InfoFind(p)
  \/ UrlsFind(p) \/ UrlsCount(p)

\* C15: the outcome of a log call touches neither the collection nor a
\* request.  The step in which a log request settles changes nothing but
\* the logger: it leaves the collection and every handler as they are and
\* sends no response; it can end either way, with a "sent" note or, the
\* failure swallowed, with a "fallback" note, and the state it leaves is the
\* same but for the note.  A step of a handler writes no note; a request
\* under way can go on whatever the logger has in flight or has noted; and
\* the step that ends a request sends its response, unless it is a signal
\* that stops the process.
C15_TelemetryIsolation ==
  [][/\ posts' < posts =>
          /\ posts' = posts - 1
          /\ console' \in {"sent", "fallback"}
          /\ core' = core
          /\ res' = NoRes
          /\ \A note \in {"sent", "fallback"} :
               \E x \in {<<core', res', posts'>>} :
                  ENABLED (/\ \E ok \in BOOLEAN : LogSettles(ok)
                           /\ console' = note
                           /\ <<core, res, posts>>' = x)
     /\ posts' >= posts => console' = ""
     /\ \A p \in Handlers :
          /\ pc[p] # "idle" => ENABLED Continue(p)
          /\ (pc[p] # "idle" /\ pc'[p] = "idle" /\ running') =>
               (res'.to = p /\ res'.status > 0)]_vars

\* A /redirect has counted an access and answered; since then one of its
\* log calls has failed and another of its log requests is in flight.
C15_Witness ==
  /\ console = "fallback"
  /\ posts >= 1
  /\ requests = 1
  /\ \E i \in Records : /\ store[i].accessCount = 1
                         /\ served[store[i].shortUrl] = 1
\* C17: a /shorten call looks at most 10 candidates up (the lookup under
\* way included), whatever the generator returns and whatever the other
\* handler does: every lookup that returns is counted; when every database
\* operation returns or rejects and the process is not stopped, every call
\* that awaits a store call comes to its end; and the step that ends it
\* sends its answer.
C17_Terminates ==
  /\ [](\A p \in Handlers :
          /\ attempts[p] <= 10
          /\ pc[p] = "shorten_findCode" => attempts[p] + 1 <= 10)
  /\ [][\A p \in Handlers :
          /\ (pc[p] = "shorten_findCode" /\ pc'[p] # "idle"
                 /\ <<pc[p], shortUrl[p], attempts[p]>>'
                       # <<pc[p], shortUrl[p], attempts[p]>>) =>
                attempts'[p] = attempts[p] + 1
          /\ (pc[p] = "shorten_findCode" /\ pc'[p] = "shorten_findCode") =>
                attempts'[p] >= attempts[p]
          /\ (pc[p] \in {"shorten_findUrl", "shorten_findCode", "shorten_save"}
                 /\ pc'[p] = "idle") =>
                /\ res'.to = p
                /\ res'.route = "shorten"
                /\ res'.status \in {200, 201, 500}]_vars
  /\ \A p \in Handlers :
       (pc[p] \in {"shorten_findUrl", "shorten_findCode", "shorten_save"})
          ~> (pc[p] = "idle")

\* A call is at its 10th lookup.
C17_Witness ==
  \E p \in Handlers : pc[p] = "shorten_findCode" /\ attempts[p] = 9
\* C16: a document, once in the collection, stays, with its originalUrl,
\* shortUrl and createdAt; its accessCount changes only in the step in
\* which the save() of a /redirect for it is executed; documents come one
\* at a time, from the save() of a /shorten, with accessCount 0.
C16_Lifecycle ==
  [][/\ Len(store') >= Len(store)
     /\ \A i \in Records :
          /\ store'[i].originalUrl = store[i].originalUrl
          /\ store'[i].shortUrl = store[i].shortUrl
          /\ store'[i].createdAt = store[i].createdAt
          /\ store'[i].accessCount # store[i].accessCount =>
               \E p \in Handlers : /\ pc[p] = "redirect_save"
                                    /\ pc'[p] = "idle"
                                    /\ doc[p].id = i
                                    /\ res'.route = "redirect"
                                    /\ res'.status = 200
     /\ Len(store') > Len(store) =>
          /\ Len(store') = Len(store) + 1
          /\ store'[Len(store')].accessCount = 0
          /\ \E p \in Handlers : /\ pc[p] = "shorten_save"
                                   /\ pc'[p] = "idle"
                                   /\ res'.route = "shorten"
                                   /\ res'.status = 201]_vars

\* A second document has come after the first one was accessed, and the
\* first one has been accessed again since.
C16_Witness ==
  /\ Len(store) = 2
  /\ store[1].accessCount = 2
  /\ store[2].accessCount = 0
  /\ store[1].createdAt < store[2].createdAt
  /\ res.route = "redirect"

\* What C18 says of the lookups of the loop, in a step that does not stop
\* the process: a lookup that finds its candidate free (one that rejects
\* ends the call with the answer of the catch block) ends the loop, the
\* 10th as any other, and that candidate, the last one generated, is the
\* code of the document to insert; the exhaustion error is the answer only
\* to a 10th lookup that finds its candidate in use, every lookup before it
\* having found its own in use.
LastCandidate(p) ==
  /\ (pc[p] = "shorten_findCode" /\ Unknown(shortUrl[p])
        /\ <<pc[p], attempts[p]>>' # <<pc[p], attempts[p]>>) =>
         \/ Unavailable(p)
         \/ /\ pc'[p] = "shorten_save"
            /\ attempts'[p] = attempts[p] + 1
            /\ shortUrl'[p] = shortUrl[p]
            /\ doc'[p].shortUrl = shortUrl[p]
            /\ store' = store
  /\ (pc[p] = "shorten_findCode" /\ pc'[p] = "shorten_findCode"
        /\ attempts'[p] # attempts[p]) => ~Unknown(shortUrl[p])
  /\ (pc[p] # "idle" /\ res'.to = p /\ res'.error = ExhaustionError) =>
         /\ pc[p] = "shorten_findCode"
         /\ attempts[p] + 1 = 10
         /\ ~Unknown(shortUrl[p])
  /\ (pc[p] = "shorten_save" /\ pc'[p] = "shorten_save") =>
         /\ doc'[p].shortUrl = doc[p].shortUrl
         /\ shortUrl'[p] = shortUrl[p]

\* C18: with LastCandidate, the call whose 10th candidate was found free,
\* after nine found in use, succeeds and inserts the document with that
\* code (it answers 500 from the catch block only when the store rejects
\* the insert of a code that is still free, because it cannot be reached).
C18_LastAttempt ==
  [][\A p \in Handlers :
       running' =>
         /\ LastCandidate(p)
         /\ (pc[p] = "shorten_save" /\ attempts[p] = 10 /\ pc'[p] = "idle") =>
              /\ res'.to = p
              /\ \/ /\ Unknown(shortUrl[p])
                    /\ Unavailable(p)
                 \/ /\ res'.status = 201
                    /\ res'.shortUrl = shortUrl[p]
                    /\ Len(store') = Len(store) + 1
                    /\ store'[Len(store')].shortUrl = shortUrl[p]]_vars

\* C19: the accessCount of a document is at most the number of /redirect
\* requests for its code whose save() has been executed, in every state;
\* no other step adds to it.
C19_NoOverCounting ==
  \A i \in Records : store[i].accessCount <= served[store[i].shortUrl]

\* Two /redirect requests have written the counter of a document, which
\* stands at 1.
C19_Witness ==
  \E i \in Records : /\ store[i].accessCount = 1
                      /\ served[store[i].shortUrl] = 2
====
